---- MODULE Spec2Model ----
(***************************************************************************)
(* State-machine model of the electricitymap web server (server.js):       *)
(* the asset-hash bootstrap, the source-map gate, the catch-all page       *)
(* handler (canonical redirect, fb_locale override, basic-auth gate,       *)
(* render view model) and the translation function.                        *)
(*                                                                         *)
(* JavaScript strings are sequences of one-character strings, so that      *)
(* indexOf, replace, split and concatenation are computed as the runtime   *)
(* computes them.                                                          *)
(***************************************************************************)
EXTENDS Integers, Sequences, FiniteSets, TLC

\* The JavaScript value undefined.  It is a one-element sequence holding a
\* token no string contains, so it compares unequal to every string.
Undefined == <<"undefined">>

\* A TypeError thrown while evaluating an expression.
Throw == <<"TypeError">>

\* String(v), as string concatenation applies it to its operands.
Str(v) == IF v = Undefined THEN <<"u", "n", "d", "e", "f", "i", "n", "e", "d">> ELSE v

\* Truthiness of a string-or-undefined value.
Truthy(v) == v # Undefined /\ v # <<>>

RECURSIVE IndexOfFrom(_, _, _)
\* First 0-based position >= i-1 at which pat occurs in s, or -1.
IndexOfFrom(s, pat, i) ==
  IF i + Len(pat) - 1 > Len(s) THEN -1
  ELSE IF SubSeq(s, i, i + Len(pat) - 1) = pat THEN i - 1
  ELSE IndexOfFrom(s, pat, i + 1)

\* String.prototype.indexOf(pat)
IndexOf(s, pat) == IndexOfFrom(s, pat, 1)

\* String.prototype.replace(pat, rep) with a string pattern: the first
\* occurrence only.
Replace(s, pat, rep) ==
  LET i == IndexOf(s, pat)
  IN  IF i = -1 THEN s
      ELSE SubSeq(s, 1, i) \o rep \o SubSeq(s, i + Len(pat) + 1, Len(s))

RECURSIVE Split(_, _)
\* String.prototype.split(c) for a one-character separator c.
Split(s, c) ==
  LET i == IndexOf(s, <<c>>)
  IN  IF i = -1 THEN <<s>>
      ELSE <<SubSeq(s, 1, i)>> \o Split(SubSeq(s, i + 2, Len(s)), c)

\* String.prototype.split(c, limit)
SplitLimit(s, c, limit) ==
  LET all == Split(s, c)
  IN  SubSeq(all, 1, IF Len(all) < limit THEN Len(all) ELSE limit)

\* Array element read: a[i] (0-based), undefined past the end.
At(a, i) == IF i + 1 \in 1..Len(a) THEN a[i + 1] ELSE Undefined

(***************************************************************************)
(* Configuration read at startup.                                          *)
(***************************************************************************)
en == <<"e", "n">>
fr == <<"f", "r">>

\* Object.keys(languageNames): the configured locales.
locales == <<en, fr>>
Locales == {locales[i] : i \in 1..Len(locales)}

\* i18n's defaultLocale.
defaultLocale == en

\* The content hash the build gave each locale's assets.
BuildHash(k) == IF k = en THEN <<"a", "b", "c", "1", "2", "3">> ELSE <<"9", "f", "8", "e", "7", "d">>

bundle == <<"b", "u", "n", "d", "l", "e">>
styles == <<"s", "t", "y", "l", "e", "s">>
vendor == <<"v", "e", "n", "d", "o", "r">>
js == <<"j", "s">>
css == <<"c", "s", "s">>

\* A value of assetsByChunkName: one filename, or a list of filenames.
StringEntry(f) == [t |-> "string", v |-> f, l |-> <<>>]
ListEntry(fs) == [t |-> "list", v |-> <<>>, l |-> fs]

FileName(key, h, suffix) == key \o <<".">> \o h \o <<".">> \o suffix

\* The manifest file contents the model lets the build leave on disk for
\* locale k: a complete manifest, a manifest without the styles chunk, and a
\* file that cannot be read or parsed.
FullManifest(k) ==
  [ok |-> TRUE,
   assetsByChunkName |->
     (bundle :> ListEntry(<<FileName(bundle, BuildHash(k), js),
                            FileName(bundle, BuildHash(k), <<"j", "s", ".", "m", "a", "p">>)>>)
      @@ styles :> StringEntry(FileName(styles, BuildHash(k), css))
      @@ vendor :> ListEntry(<<FileName(vendor, BuildHash(k), js),
                              FileName(vendor, BuildHash(k), css)>>))]
NoStylesManifest(k) ==
  [ok |-> TRUE,
   assetsByChunkName |->
     (bundle :> StringEntry(FileName(bundle, BuildHash(k), js))
      @@ vendor :> ListEntry(<<FileName(vendor, BuildHash(k), css),
                              FileName(vendor, BuildHash(k), js)>>))]
UnreadableManifest == [ok |-> FALSE, assetsByChunkName |-> <<>>]
ManifestFiles(k) == {FullManifest(k), NoStylesManifest(k), UnreadableManifest}

\* process.env.BASIC_AUTH_CREDENTIALS values the model starts the server with.
CredentialSettings ==
  {Undefined, <<"a", "l", "i", "c", "e", ":", "s", "e", "c", "r", "e", "t">>, <<"a", "l", "i", "c", "e", ":", "s", "e", "c", "r", "e", "t", ",", "b", "o", "b", ":", "p", "a", ":", "s", "s">>}

VARIABLES
  files,        \* locale -> contents of dist/manifest_<locale>.json
  credentials,  \* process.env.BASIC_AUTH_CREDENTIALS
  phase,        \* "loading" | "loaded" | "listening"
  srcHashes,    \* the hash table
  lr,           \* the global the catch-all handler assigns
  req,          \* the request being handled, or NoRequest
  res,          \* its response, or NoResponse
  tr,           \* last call of the translation function
  gh            \* last call of getHash

vars == <<files, credentials, phase, srcHashes, lr, req, res, tr, gh>>

(***************************************************************************)
(* Long-term caching: getHash and the hash table.                          *)
(***************************************************************************)

\* d.match(new RegExp('\.' + ext + '$')): in the string literal '\.' is '.',
\* so the pattern is "any character, then ext, at the end".
MatchesExt(d, ext) ==
  /\ Len(d) >= Len(ext) + 1
  /\ SubSeq(d, Len(d) - Len(ext) + 1, Len(d)) = ext
  /\ d[Len(d) - Len(ext)] # "\n"

\* An assetsByChunkName object read at a key.
ChunkAt(assets, key) ==
  IF key \in DOMAIN assets THEN assets[key]
  ELSE [t |-> "undefined", v |-> <<>>, l |-> <<>>]

\* The filename getHash picks; Throw when the chunk is absent (filter of
\* undefined), Undefined when the list has no matching entry.
PickFilename(key, ext, assets) ==
  LET entry == ChunkAt(assets, key)
      Pred(d) == MatchesExt(d, ext)
  IN  IF entry.t = "string" THEN entry.v
      ELSE IF entry.t = "list" THEN At(SelectSeq(entry.l, Pred), 0)
      ELSE Throw

\* getHash(key, ext, obj) with obj.assetsByChunkName = assets.
getHash(key, ext, assets) ==
  LET filename == PickFilename(key, ext, assets)
  IN  IF filename = Throw \/ filename = Undefined THEN Throw
      ELSE Replace(Replace(filename, <<".">> \o ext, <<>>), key \o <<".">>, <<>>)

\* The callback's null.
Null == [null |-> TRUE]

\* The try block of locales.map's callback for a manifest file f: whether it
\* threw, and the entry it returns otherwise.
TryLoad(f) ==
  IF ~f.ok THEN [threw |-> TRUE, entry |-> Null]
  ELSE LET obj == f.assetsByChunkName
           BUNDLE_HASH == getHash(bundle, js, obj)
           STYLES_HASH == getHash(styles, css, obj)
           VENDOR_HASH == getHash(vendor, js, obj)
           VENDOR_STYLES_HASH == getHash(vendor, css, obj)
       IN  IF Throw \in {BUNDLE_HASH, STYLES_HASH, VENDOR_HASH, VENDOR_STYLES_HASH}
           THEN [threw |-> TRUE, entry |-> Null]
           ELSE [threw |-> FALSE,
                 entry |-> [BUNDLE_HASH |-> BUNDLE_HASH, STYLES_HASH |-> STYLES_HASH,
                            VENDOR_HASH |-> VENDOR_HASH,
                            VENDOR_STYLES_HASH |-> VENDOR_STYLES_HASH]]

\* A loader whose catch branch returns an empty record instead of null.
LoadManifestKeepsFailed(f) ==
  IF TryLoad(f).threw
  THEN [BUNDLE_HASH |-> Undefined, STYLES_HASH |-> Undefined,
        VENDOR_HASH |-> Undefined, VENDOR_STYLES_HASH |-> Undefined]
  ELSE TryLoad(f).entry

\* locales.map's callback: the entry, or null once the catch branch ran.
LoadManifest(f) ==
  IF TryLoad(f).threw THEN Null ELSE TryLoad(f).entry

\* Object.fromEntries(locales.map(...).filter(d => d))
BuildSrcHashes(fs) ==
  LET kept == {k \in Locales : LoadManifest(fs[k]) # Null}
  IN  [k \in kept |-> LoadManifest(fs[k])]

(***************************************************************************)
(* Requests.                                                               *)
(***************************************************************************)

\* The Sentry addresses of the source-map route, and the x-forwarded-for
\* values the model sends ("" stands for a request without the header).
SentryAddresses ==
  {"35.184.238.160", "104.155.159.182", "104.155.149.19", "130.211.230.102"}
SourceAddresses == SentryAddresses \cup {"203.0.113.7", ""}

wwwHost == <<"w", "w", "w", ".", "e", "l", "e", "c", "t", "r", "i", "c", "i", "t", "y", "m", "a", "p", ".", "o", "r", "g">>
bareHost == <<"e", "l", "e", "c", "t", "r", "i", "c", "i", "t", "y", "m", "a", "p", ".", "o", "r", "g">>
liveHost == <<"l", "i", "v", "e", ".", "e", "l", "e", "c", "t", "r", "i", "c", "i", "t", "y", "m", "a", "p", ".", "o", "r", "g">>
stagingHost == <<"s", "t", "a", "g", "i", "n", "g", ".", "e", "l", "e", "c", "t", "r", "i", "c", "i", "t", "y", "m", "a", "p", ".", "o", "r", "g">>
tmrowHost == <<"e", "l", "e", "c", "t", "r", "i", "c", "i", "t", "y", "m", "a", "p", ".", "t", "m", "r", "o", "w", ".", "c", "o">>
Hosts == {wwwHost, bareHost, liveHost, stagingHost, tmrowHost}

facebookAgent == <<"f", "a", "c", "e", "b", "o", "o", "k", "e", "x", "t", "e", "r", "n", "a", "l", "h", "i", "t", "/", "1", ".", "1">>
UserAgents == {Undefined, <<"M", "o", "z", "i", "l", "l", "a", "/", "5", ".", "0">>, facebookAgent}

\* The decoded user-pass of the Authorization header; Undefined without one.
Authorizations ==
  {Undefined, <<"a", "l", "i", "c", "e", ":", "s", "e", "c", "r", "e", "t">>, <<"b", "o", "b", ":", "p", "a", ":", "s", "s">>, <<"b", "o", "b", ":", "p", "a">>}

\* req.originalUrl
Urls ==
  {<<"/">>, <<"/", "?", "f", "o", "o", "=", "1">>, <<"/", "?", "l", "a", "n", "g", "=", "f", "r">>, <<"/", "?", "l", "a", "n", "g", "=", "e", "n", "&", "f", "o", "o", "=", "1">>, <<"/", "l", "a", "n", "g", "u", "a", "g", "e">>,
   <<"/", "?", "f", "b", "_", "l", "o", "c", "a", "l", "e", "=", "f", "r", "_", "F", "R">>, <<"/", "m", "a", "p", "?", "f", "b", "_", "l", "o", "c", "a", "l", "e", "=", "d", "e", "_", "D", "E", "&", "l", "a", "n", "g", "=", "f", "r">>, <<"/", "?", "s", "l", "a", "n", "g", "=", "1">>}

NoRequest ==
  [kind |-> "none", ip |-> "", host |-> <<>>, ua |-> Undefined,
   authorization |-> Undefined, url |-> <<>>, accept |-> defaultLocale]

SourceMapRequest(ip) == [NoRequest EXCEPT !.kind = "sourcemap", !.ip = ip]

PageRequest(host, ua, authorization, url, accept) ==
  [kind |-> "page", ip |-> "", host |-> host, ua |-> ua,
   authorization |-> authorization, url |-> url, accept |-> accept]

NoView ==
  [alternateUrls |-> <<>>, bundleHash |-> Undefined, vendorHash |-> Undefined,
   stylesHash |-> Undefined, vendorStylesHash |-> Undefined,
   fullUrl |-> <<>>, locale |-> Undefined]

\* A response: outcome is "none" (not answered), "next" (handed to the next
\* middleware), "json401", "redirect", "denied", "render" or "error" (the
\* handler threw).
NoResponse ==
  [outcome |-> "none", status |-> 0, location |-> <<>>, headers |-> {},
   cookies |-> {}, locale |-> Undefined, view |-> NoView]

(***************************************************************************)
(* Source maps.                                                            *)
(***************************************************************************)

\* [...].indexOf(req.headers['x-forwarded-for']) !== -1
InSentryList(ip) == ip \in SentryAddresses

\* app.all('/dist/*.map', ...)
SourceMapGate(r) ==
  IF InSentryList(r.ip)
  THEN [NoResponse EXCEPT !.outcome = "json401", !.status = 401]
  ELSE [NoResponse EXCEPT !.outcome = "next"]

(***************************************************************************)
(* The catch-all handler.                                                  *)
(***************************************************************************)

\* The query string of a URL: what follows the first '?'.
QueryString(url) ==
  LET i == IndexOf(url, <<"?">>)
  IN  IF i = -1 THEN <<>> ELSE SubSeq(url, i + 2, Len(url))

ParsePair(p) ==
  LET i == IndexOf(p, <<"=">>)
  IN  IF i = -1 THEN [k |-> p, v |-> <<>>]
      ELSE [k |-> SubSeq(p, 1, i), v |-> SubSeq(p, i + 2, Len(p))]

\* req.query, as the sequence of its key-value pairs.
ParseQuery(url) ==
  LET NonEmpty(p) == p # <<>>
      parts == SelectSeq(Split(QueryString(url), "&"), NonEmpty)
  IN  [i \in 1..Len(parts) |-> ParsePair(parts[i])]

\* req.query[name]
QueryGet(q, name) ==
  IF \E i \in 1..Len(q) : q[i].k = name
  THEN q[CHOOSE i \in 1..Len(q) :
             q[i].k = name /\ \A j \in 1..(i - 1) : q[j].k # name].v
  ELSE Undefined

\* i18n's setLocale: the locale when it is configured, else the default.
SetLocale(target) == IF target \in Locales THEN target ELSE defaultLocale

\* The locale i18n.init leaves on res: the lang query parameter when there is
\* one, else what the cookie and Accept-Language headers resolve to.
InitLocale(r) ==
  LET lang == QueryGet(ParseQuery(r.url), <<"l", "a", "n", "g">>)
  IN  IF Truthy(lang) THEN SetLocale(lang) ELSE r.accept

isTmrowCo(host) == IndexOf(host, <<"e", "l", "e", "c", "t", "r", "i", "c", "i", "t", "y", "m", "a", "p", ".", "t", "m", "r", "o", "w">>) # -1

\* isNonWWW with the live host forgotten.
isNonWWWWithoutLive(host) == host = bareHost

isNonWWW(host) == host = bareHost \/ host = liveHost

isStaging(host) == host = stagingHost

\* (req.headers['user-agent'] || '').indexOf('facebookexternalhit') == -1
NotCrawler(ua) ==
  IndexOf(IF Truthy(ua) THEN ua ELSE <<>>, <<"f", "a", "c", "e", "b", "o", "o", "k", "e", "x", "t", "e", "r", "n", "a", "l", "h", "i", "t">>) = -1

\* The condition of the canonical-host redirect.
ShouldRedirect(r) ==
  ~isStaging(r.host) /\ (isNonWWW(r.host) \/ isTmrowCo(r.host)) /\ NotCrawler(r.ua)

canonical == <<"h", "t", "t", "p", "s", ":", "/", "/", "w", "w", "w", ".", "e", "l", "e", "c", "t", "r", "i", "c", "i", "t", "y", "m", "a", "p", ".", "o", "r", "g">>

\* auth(req): name up to the first ':' and pass after it.
BasicAuth(authorization) ==
  LET i == IF authorization = Undefined THEN -1 ELSE IndexOf(authorization, <<":">>)
  IN  IF i = -1 THEN [present |-> FALSE, name |-> <<>>, pass |-> <<>>]
      ELSE [present |-> TRUE, name |-> SubSeq(authorization, 1, i),
            pass |-> SubSeq(authorization, i + 2, Len(authorization))]

\* The forEach over BASIC_AUTH_CREDENTIALS.split(','), each cred.split(':')
\* destructured into [name, pass].
Authorized(creds, user) ==
  /\ user.present
  /\ \E i \in 1..Len(Split(creds, ",")) :
       LET parts == Split(Split(creds, ",")[i], ":")
       IN  At(parts, 0) = user.name /\ At(parts, 1) = user.pass

\* One element of alternateUrls.
AlternateUrl(fullUrl, q, l) ==
  IF IndexOf(fullUrl, <<"l", "a", "n", "g">>) # -1
  THEN Replace(fullUrl, <<"l", "a", "n", "g", "=">> \o Str(QueryGet(q, <<"l", "a", "n", "g">>)), <<"l", "a", "n", "g", "=">> \o l)
  ELSE IF Len(q) # 0 THEN fullUrl \o <<"&", "l", "a", "n", "g", "=">> \o l
  ELSE Replace(fullUrl, <<"?">>, <<>>) \o <<"?", "l", "a", "n", "g", "=">> \o l

\* The response of app.use('/', ...) to request r.
CatchAll(r, creds, table) ==
  IF ShouldRedirect(r)
  THEN [NoResponse EXCEPT !.outcome = "redirect", !.status = 301,
                          !.location = canonical \o r.url,
                          !.locale = InitLocale(r)]
  ELSE
    LET q == ParseQuery(r.url)
        fb_locale == QueryGet(q, <<"f", "b", "_", "l", "o", "c", "a", "l", "e">>)
        locale == IF Truthy(fb_locale)
                  THEN SetLocale(At(SplitLimit(fb_locale, "_", 2), 0))
                  ELSE InitLocale(r)
        fullUrl == canonical \o r.url
        gated == Truthy(creds)
        cookies == IF gated THEN {"electricitymap-token"} ELSE {}
    IN  IF gated /\ ~Authorized(creds, BasicAuth(r.authorization))
        THEN [NoResponse EXCEPT !.outcome = "denied", !.status = 401,
                                !.headers = {"WWW-Authenticate"},
                                !.locale = locale]
        ELSE IF locale \notin DOMAIN table
        THEN [NoResponse EXCEPT !.outcome = "error", !.status = 500,
                                !.cookies = cookies, !.locale = locale]
        ELSE [NoResponse EXCEPT
                !.outcome = "render", !.status = 200, !.cookies = cookies,
                !.locale = locale,
                !.view = [alternateUrls |->
                            [i \in 1..Len(locales) |->
                               AlternateUrl(fullUrl, q, locales[i])],
                          bundleHash |-> table[locale].BUNDLE_HASH,
                          vendorHash |-> table[locale].VENDOR_HASH,
                          stylesHash |-> table[locale].STYLES_HASH,
                          vendorStylesHash |-> table[locale].VENDOR_STYLES_HASH,
                          fullUrl |-> fullUrl,
                          locale |-> locale]]

\* The value the handler leaves in the global lr.
AssignLr(r, old) ==
  LET fb_locale == QueryGet(ParseQuery(r.url), <<"f", "b", "_", "l", "o", "c", "a", "l", "e">>)
  IN  IF ~ShouldRedirect(r) /\ Truthy(fb_locale)
      THEN SplitLimit(fb_locale, "_", 2)
      ELSE old

(***************************************************************************)
(* Translation.                                                            *)
(***************************************************************************)

\* A node of a locale's JSON tree: a template string or an object.
Leaf(s) == [t |-> "string", s |-> s, m |-> <<>>]
Object(m) == [t |-> "object", s |-> <<>>, m |-> m]
Absent == [t |-> "undefined", s |-> <<>>, m |-> <<>>]

\* require(`locales/${d}.json`): the trees the model gives the two locales.
\* fr lacks country.de and tooltip, and has an untranslated (empty) greeting.
localeConfigs ==
  en :> Object(<<"g", "r", "e", "e", "t", "i", "n", "g">> :> Leaf(<<"H", "e", "l", "l", "o", " ", "%", "s">>)
               @@ <<"s", "h", "a", "r", "e">> :> Leaf(<<"%", "s", "%", "%", " ", "o", "f", " ", "%", "s">>)
               @@ <<"c", "o", "u", "n", "t", "r", "y">> :> Object(<<"f", "r">> :> Leaf(<<"F", "r", "a", "n", "c", "e">>)
                                        @@ <<"d", "e">> :> Leaf(<<"G", "e", "r", "m", "a", "n", "y">>))
               @@ <<"t", "o", "o", "l", "t", "i", "p">> :> Object(<<"c", "a", "r", "b", "o", "n">> :> Leaf(<<"%", "s", " ", "g">>)))
  @@
  fr :> Object(<<"g", "r", "e", "e", "t", "i", "n", "g">> :> Leaf(<<>>)
               @@ <<"s", "h", "a", "r", "e">> :> Leaf(<<"%", "s", "%", "%", " ", "d", "e", " ", "%", "s">>)
               @@ <<"m", "e", "r", "c", "i">> :> Leaf(<<"M", "e", "r", "c", "i", " ", "%", "s">>)
               @@ <<"c", "o", "u", "n", "t", "r", "y">> :> Object(<<"f", "r">> :> Leaf(<<"F", "r", "a", "n", "c", "e">>)))

\* The dotted keys the templates ask for.
Keys ==
  {<<"g", "r", "e", "e", "t", "i", "n", "g">>, <<"s", "h", "a", "r", "e">>, <<"m", "e", "r", "c", "i">>, <<"c", "o", "u", "n", "t", "r", "y", ".", "f", "r">>, <<"c", "o", "u", "n", "t", "r", "y", ".", "d", "e">>,
   <<"t", "o", "o", "l", "t", "i", "p", ".", "c", "a", "r", "b", "o", "n">>, <<"t", "o", "o", "l", "t", "i", "p", ".", "c", "a", "r", "b", "o", "n", ".", "u", "n", "i", "t">>, <<"m", "i", "s", "s", "i", "n", "g", ".", "k", "e", "y">>}

\* The most positional arguments a call passes, and their values.
MaxArgs == 2
ArgValues == {<<"7">>, <<"x">>}
ArgLists == UNION {[1..n -> ArgValues] : n \in 0..MaxArgs}

\* result[keys[i]]: a property of an object, undefined on a string.
Property(node, key) ==
  IF node.t = "object" /\ key \in DOMAIN node.m THEN node.m[key] ELSE Absent

RECURSIVE Walk(_, _)
\* The for loop of translateWithLocale over the remaining keys.
Walk(node, keys) ==
  IF keys = <<>> \/ node.t = "undefined" THEN node
  ELSE Walk(Property(node, Head(keys)), Tail(keys))

\* !result
Falsy(node) == node.t = "undefined" \/ (node.t = "string" /\ node.s = <<>>)

RECURSIVE Format(_, _, _)
\* sprintf-js on a template of text, %% and %s placeholders: the placeholder
\* at position cursor takes String(args[cursor]).
Format(fmt, args, cursor) ==
  IF fmt = <<>> THEN <<>>
  ELSE IF Len(fmt) >= 2 /\ fmt[1] = "%" /\ fmt[2] = "s"
  THEN Str(At(args, cursor)) \o Format(SubSeq(fmt, 3, Len(fmt)), args, cursor + 1)
  ELSE IF Len(fmt) >= 2 /\ fmt[1] = "%" /\ fmt[2] = "%"
  THEN <<"%">> \o Format(SubSeq(fmt, 3, Len(fmt)), args, cursor)
  ELSE <<fmt[1]>> \o Format(Tail(fmt), args, cursor)

\* vsprintf(result, formatArgs); a non-string format throws.
vsprintf(node, args) ==
  IF node.t = "string" THEN Format(node.s, args, 0) ELSE Throw

RECURSIVE translateWithLocale(_, _, _)
\* translateWithLocale(locale, keyStr, ...formatArgs).  The retry against
\* 'en' is called with the locale and the key only.
translateWithLocale(locale, keyStr, formatArgs) ==
  LET result == Walk(localeConfigs[locale], Split(keyStr, "."))
  IN  IF locale # en /\ Falsy(result)
      THEN translateWithLocale(en, keyStr, <<>>)
      ELSE IF Falsy(result)
           THEN (IF result.t = "undefined" THEN Undefined ELSE <<>>)
           ELSE vsprintf(result, formatArgs)

\* The view model's __ : the resolved locale prepended to the arguments.
Translate(locale, key, args) == translateWithLocale(locale, key, args)

(***************************************************************************)
(* The server as a state machine.                                          *)
(***************************************************************************)
NoCall == [locale |-> en, key |-> <<>>, args |-> <<>>, result |-> Undefined]
NoHashCall == [key |-> <<>>, ext |-> <<>>, entry |-> StringEntry(<<>>), result |-> Undefined]

Init ==
  /\ files \in [Locales -> UNION {ManifestFiles(k) : k \in Locales}]
  /\ \A k \in Locales : files[k] \in ManifestFiles(k)
  /\ credentials \in CredentialSettings
  /\ phase = "loading"
  /\ srcHashes = <<>>
  /\ lr = Undefined
  /\ req = NoRequest
  /\ res = NoResponse
  /\ tr = NoCall
  /\ gh = NoHashCall

\* const srcHashes = Object.fromEntries(...)
Bootstrap ==
  /\ phase = "loading"
  /\ srcHashes' = BuildSrcHashes(files)
  /\ phase' = "loaded"
  /\ UNCHANGED <<files, credentials, lr, req, res, tr, gh>>

\* server.listen(...)
Listen ==
  /\ phase = "loaded"
  /\ phase' = "listening"
  /\ UNCHANGED <<files, credentials, srcHashes, lr, req, res, tr, gh>>

\* A request for /dist/*.map arrives.
ReceiveSourceMap ==
  /\ phase = "listening" /\ req = NoRequest
  /\ \E ip \in SourceAddresses : req' = SourceMapRequest(ip)
  /\ UNCHANGED <<files, credentials, phase, srcHashes, lr, res, tr, gh>>

\* A request for a page arrives.
ReceivePage ==
  /\ phase = "listening" /\ req = NoRequest
  /\ \E host \in Hosts, ua \in UserAgents, a \in Authorizations,
        url \in Urls, accept \in Locales :
       req' = PageRequest(host, ua, a, url, accept)
  /\ UNCHANGED <<files, credentials, phase, srcHashes, lr, res, tr, gh>>

HandleSourceMap ==
  /\ req.kind = "sourcemap" /\ res = NoResponse
  /\ res' = SourceMapGate(req)
  /\ UNCHANGED <<files, credentials, phase, srcHashes, lr, req, tr, gh>>

HandleCatchAll ==
  /\ req.kind = "page" /\ res = NoResponse
  /\ res' = CatchAll(req, credentials, srcHashes)
  /\ lr' = AssignLr(req, lr)
  /\ UNCHANGED <<files, credentials, phase, srcHashes, req, tr, gh>>

\* The response has been sent; the request and response objects are dropped.
Complete ==
  /\ res # NoResponse
  /\ req' = NoRequest
  /\ res' = NoResponse
  /\ UNCHANGED <<files, credentials, phase, srcHashes, lr, tr, gh>>

Next ==
  \/ Bootstrap
  \/ Listen
  \/ ReceiveSourceMap
  \/ ReceivePage
  \/ HandleSourceMap
  \/ HandleCatchAll
  \/ Complete

Spec == Init /\ [][Next]_vars

(***************************************************************************)
(* The translation function and getHash on their own: the server stays as  *)
(* it is after a complete startup and the function is applied to inputs.   *)
(***************************************************************************)
InitIdle ==
  /\ files = [k \in Locales |-> FullManifest(k)]
  /\ credentials = Undefined
  /\ phase = "listening"
  /\ srcHashes = BuildSrcHashes(files)
  /\ lr = Undefined
  /\ req = NoRequest
  /\ res = NoResponse
  /\ tr = NoCall
  /\ gh = NoHashCall

\* A template calls __(key, ...args) under a resolved locale.
CallTranslate ==
  /\ \E locale \in Locales, key \in Keys, args \in ArgLists :
       tr' = [locale |-> locale, key |-> key, args |-> args,
              result |-> Translate(locale, key, args)]
  /\ UNCHANGED <<files, credentials, phase, srcHashes, lr, req, res, gh>>

SpecTranslate == InitIdle /\ [][CallTranslate]_vars

\* The (key, ext) lookups of the startup loop.
Lookups == {<<bundle, js>>, <<styles, css>>, <<vendor, js>>, <<vendor, css>>}

\* Filenames a build emits for a chunk, the longest list a chunk maps to,
\* and the values assetsByChunkName[key] takes.
HashValues == {<<"a", "b", "c", "1", "2", "3">>, <<"9", "f", "8", "e", "7", "d">>}
EmittedNames(key) ==
  {FileName(key, h, sfx) : h \in HashValues,
                           sfx \in {js, css, <<"j", "s", ".", "m", "a", "p">>, <<"c", "s", "s", ".", "m", "a", "p">>}}
MaxList == 2
Injective(s) == \A i, j \in 1..Len(s) : s[i] = s[j] => i = j
ChunkEntries(key) ==
  {StringEntry(FileName(key, h, sfx)) : h \in HashValues, sfx \in {js, css}}
  \cup {ListEntry(fs) : fs \in {s \in UNION {[1..n -> EmittedNames(key)] : n \in 1..MaxList} :
                                 Injective(s)}}

\* getHash is applied to a manifest holding one chunk.
CallGetHash ==
  /\ \E lk \in Lookups :
       \E entry \in ChunkEntries(lk[1]) :
         gh' = [key |-> lk[1], ext |-> lk[2], entry |-> entry,
                result |-> getHash(lk[1], lk[2], lk[1] :> entry)]
  /\ UNCHANGED <<files, credentials, phase, srcHashes, lr, req, res, tr>>

SpecGetHash == InitIdle /\ [][CallGetHash]_vars

(***************************************************************************)
(* Properties.                                                             *)
(***************************************************************************)

\* s contains pat somewhere.
Contains(s, pat) ==
  \E i \in 1..Len(s) : i + Len(pat) - 1 <= Len(s) /\ SubSeq(s, i, i + Len(pat) - 1) = pat

\* s ends with suffix.
EndsWith(s, suffix) ==
  Len(s) >= Len(suffix) /\ SubSeq(s, Len(s) - Len(suffix) + 1, Len(s)) = suffix

SourceMapAnswered == req.kind = "sourcemap" /\ res # NoResponse
PageAnswered == req.kind = "page" /\ res # NoResponse

\* C1: a request for /dist/*.map is answered 401 by the gate if and only if
\* its x-forwarded-for address is not one of the four allow-listed addresses;
\* an allow-listed address is never answered 401 and falls through to the
\* static files.
C1_GateDeniesExactlyUnlisted ==
  SourceMapAnswered =>
    /\ (res.status = 401) <=> (req.ip \notin SentryAddresses)
    /\ (req.ip \in SentryAddresses) => res.outcome = "next"

\* A configured name:pass pair: the name up to the first ':' and the password
\* after it, which may itself contain ':'.
ConfiguredPairs(creds) ==
  IF ~Truthy(creds) THEN {}
  ELSE {<<SubSeq(c, 1, IndexOf(c, <<":">>)), SubSeq(c, IndexOf(c, <<":">>) + 2, Len(c))>> :
          c \in {Split(creds, ",")[i] : i \in 1..Len(Split(creds, ","))}}

PresentedPairConfigured ==
  LET user == BasicAuth(req.authorization)
  IN  user.present /\ <<user.name, user.pass>> \in ConfiguredPairs(credentials)

\* C2: with BASIC_AUTH_CREDENTIALS unset the catch-all handler never answers
\* 401.  With it set, a request that is not redirected passes the gate to the
\* render exactly when its Basic-Auth name and password equal a configured
\* name:pass pair (a password containing ':' included); every other request
\* gets 401 with a WWW-Authenticate header and no rendered page.
C2_BasicAuthGate ==
  PageAnswered =>
    /\ ~Truthy(credentials) => res.status # 401
    /\ (Truthy(credentials) /\ res.outcome # "redirect") =>
         /\ PresentedPairConfigured => res.status # 401
         /\ ~PresentedPairConfigured =>
              /\ res.status = 401
              /\ "WWW-Authenticate" \in res.headers
              /\ res.outcome # "render"

LegacyHost(host) ==
  host = bareHost \/ host = liveHost \/ Contains(host, <<"e", "l", "e", "c", "t", "r", "i", "c", "i", "t", "y", "m", "a", "p", ".", "t", "m", "r", "o", "w">>)

FacebookCrawler(ua) ==
  ua # Undefined /\ Contains(ua, <<"f", "a", "c", "e", "b", "o", "o", "k", "e", "x", "t", "e", "r", "n", "a", "l", "h", "i", "t">>)

\* C3: a catch-all request is answered 301 to https://www.electricitymap.org
\* plus its original path and query if and only if its host is not the
\* staging host, is electricitymap.org, live.electricitymap.org or contains
\* 'electricitymap.tmrow', and its User-Agent does not contain
\* 'facebookexternalhit'; a crawler is never redirected and a legacy-host
\* request without User-Agent is.
C3_CanonicalRedirect ==
  PageAnswered =>
    /\ (res.status = 301) <=>
         (/\ req.host # stagingHost
          /\ LegacyHost(req.host)
          /\ ~FacebookCrawler(req.ua))
    /\ (res.status = 301) =>
         res.outcome = "redirect" /\ res.location = canonical \o req.url
    /\ FacebookCrawler(req.ua) => res.outcome # "redirect"

\* A legacy-host request without a User-Agent header has been redirected.
C3_Witness ==
  /\ PageAnswered /\ req.host = liveHost /\ req.ua = Undefined
  /\ res.status = 301 /\ res.location = canonical \o req.url

\* The template at a key path of a locale, Undefined when it is not there.
TemplateAt(locale, key) ==
  LET node == Walk(localeConfigs[locale], Split(key, "."))
  IN  IF node.t = "string" /\ node.s # <<>> THEN node.s ELSE Undefined

\* C4: the translation function returns the locale's own template formatted
\* with the arguments when it is present; otherwise, for a locale other than
\* 'en', the 'en' template formatted with the same arguments; otherwise a
\* falsy value, and it never throws.
C4_TranslateFormatsWithArguments ==
  tr # NoCall =>
    LET own == TemplateAt(tr.locale, tr.key)
        dflt == TemplateAt(en, tr.key)
    IN  /\ tr.result # Throw
        /\ own # Undefined => tr.result = Format(own, tr.args, 0)
        /\ (own = Undefined /\ tr.locale # en /\ dflt # Undefined) =>
             tr.result = Format(dflt, tr.args, 0)
        /\ (own = Undefined /\ (tr.locale = en \/ dflt = Undefined)) =>
             ~Truthy(tr.result)

\* The number of lang parameters of a parsed query.
LangCount(q) == Cardinality({i \in 1..Len(q) : q[i].k = <<"l", "a", "n", "g">>})

\* C5: every alternate URL of a rendered request carries lang=l exactly once
\* for its locale l: an existing lang parameter is replaced, otherwise
\* '&lang=l' is appended to a URL with other parameters and '?lang=l' to one
\* with none, also when 'lang' occurs elsewhere in the URL.
C5_AlternateUrlsCarryLang ==
  (PageAnswered /\ res.outcome = "render") =>
    \A i \in 1..Len(locales) :
      LET u == res.view.alternateUrls[i]
          q == ParseQuery(req.url)
      IN  /\ LangCount(ParseQuery(u)) = 1
          /\ QueryGet(ParseQuery(u), <<"l", "a", "n", "g">>) = locales[i]
          /\ (LangCount(q) = 0 /\ Len(q) # 0) =>
               u = canonical \o req.url \o <<"&", "l", "a", "n", "g", "=">> \o locales[i]
          /\ (LangCount(q) = 0 /\ Len(q) = 0) =>
               EndsWith(u, <<"?", "l", "a", "n", "g", "=">> \o locales[i])

\* A manifest file loads: it is readable and, for each of the four lookups,
\* names the chunk with a filename, or a list holding a file of the extension.
ManifestLoads(f) ==
  /\ f.ok
  /\ \A lk \in Lookups :
       /\ lk[1] \in DOMAIN f.assetsByChunkName
       /\ LET e == f.assetsByChunkName[lk[1]]
          IN  e.t = "string" \/
              \E i \in 1..Len(e.l) : EndsWith(e.l[i], <<".">> \o lk[2])

HashTableExact ==
  /\ DOMAIN srcHashes = {k \in Locales : ManifestLoads(files[k])}
  /\ \A k \in DOMAIN srcHashes :
       /\ DOMAIN srcHashes[k] =
            {"BUNDLE_HASH", "STYLES_HASH", "VENDOR_HASH", "VENDOR_STYLES_HASH"}
       /\ \A h \in DOMAIN srcHashes[k] : srcHashes[k][h] = BuildHash(k)

\* C6: whatever subset of the manifests fails to load, startup completes and
\* the server listens; the hash table then holds exactly the locales whose
\* manifest loaded, each with its four hashes; and no request changes the
\* hash table afterwards.
C6_StartupToleratesManifestFailures ==
  /\ [](phase = "loaded" => ENABLED Listen)
  /\ [](phase # "loading" => HashTableExact)
  /\ [][phase = "listening" => srcHashes' = srcHashes]_vars

\* The server listens and has answered a page request although the manifest
\* of fr failed to load and that of en loaded.
C6_Witness ==
  /\ phase = "listening" /\ PageAnswered
  /\ ~ManifestLoads(files[fr]) /\ DOMAIN srcHashes = {en}

\* C7: every catch-all request that is neither redirected nor denied is
\* rendered with the four asset hashes of its resolved locale, also for a
\* locale whose manifest failed to load, and does not end in a handler error.
C7_RenderedWithHashes ==
  (PageAnswered /\ res.outcome \notin {"redirect", "denied"}) =>
    /\ res.outcome = "render"
    /\ \A h \in {res.view.bundleHash, res.view.vendorHash,
                 res.view.stylesHash, res.view.vendorStylesHash} :
         h # Undefined

\* C8: getHash returns the filename without its 'key.' prefix and '.ext'
\* extension: from a list, that of the first entry ending in '.ext'; from a
\* single filename, a result that holds neither the chunk name nor any file
\* extension, for each of the four lookups of the startup loop.
C8_GetHashIsContentHash ==
  gh # NoHashCall =>
    /\ gh.entry.t = "string" =>
         /\ ~Contains(gh.result, <<".">>)
         /\ ~Contains(gh.result, gh.key)
         /\ gh.entry.v = FileName(gh.key, gh.result, gh.ext)
    /\ (gh.entry.t = "list" /\ \E i \in 1..Len(gh.entry.l) :
                                  EndsWith(gh.entry.l[i], <<".">> \o gh.ext)) =>
         LET first == CHOOSE i \in 1..Len(gh.entry.l) :
                        /\ EndsWith(gh.entry.l[i], <<".">> \o gh.ext)
                        /\ \A j \in 1..(i - 1) : ~EndsWith(gh.entry.l[j], <<".">> \o gh.ext)
         IN  gh.entry.l[first] = FileName(gh.key, gh.result, gh.ext)

\* C9: each catch-all request ends in exactly one of 301 redirect, 401
\* challenge and rendered page; a redirected request is not authenticated,
\* keeps its locale and gets no token cookie; a denied request is not rendered
\* and gets no cookie; the cookie is set only past the gate with credentials
\* configured.
C9_ThreeOutcomesInOrder ==
  PageAnswered =>
    /\ res.outcome \in {"redirect", "denied", "render"}
    /\ res.outcome = "redirect" =>
         /\ res.status = 301 /\ res.cookies = {} /\ res.headers = {}
         /\ res.locale = InitLocale(req)
    /\ res.outcome = "denied" =>
         res.status = 401 /\ res.cookies = {} /\ res.view = NoView
    /\ res.cookies # {} =>
         Truthy(credentials) /\ res.outcome \notin {"redirect", "denied"}

\* The locale a request's own fb_locale and language inputs resolve to.
OwnLocale(r) ==
  LET fb == QueryGet(ParseQuery(r.url), <<"f", "b", "_", "l", "o", "c", "a", "l", "e">>)
      first == IF Contains(fb, <<"_">>) THEN SubSeq(fb, 1, IndexOf(fb, <<"_">>)) ELSE fb
  IN  IF Truthy(fb) THEN (IF first \in Locales THEN first ELSE defaultLocale)
      ELSE InitLocale(r)

\* C10: the locale of a request is determined by its own fb_locale and lang
\* inputs alone, and handling a request writes no state that outlives the
\* request or that another request can see.
C10_NoSharedRequestState ==
  [][(req.kind = "page" /\ res = NoResponse /\ res' # NoResponse) =>
       /\ res'.outcome # "redirect" => res'.locale = OwnLocale(req)
       /\ <<files, credentials, phase, srcHashes, lr>>' =
            <<files, credentials, phase, srcHashes, lr>>]_vars
====
